---------------------------- MODULE Spec2Model ----------------------------
(***************************************************************************)
(* A model of textform.format / textform.format_to_lines (src/textform.py) *)
(* as a state machine.  Python strings are TLA+ strings; a Python list of  *)
(* strings is a sequence of strings.  Values are restricted to str objects *)
(* without backslashes, for which str(v) is v itself and for which the     *)
(* replacement template of re.sub is taken literally.                      *)
(***************************************************************************)
EXTENDS Integers, Sequences, FiniteSets, TLC

VARIABLES template, values, pc, t, fields, rows, more, line, lines, result

vars == <<template, values, pc, t, fields, rows, more, line, lines, result>>

---------------------------------------------------------------------------
(* Bounds of the input space.                                              *)

MaxTemplateLen == 4
MaxValues == 2
MaxValueLen == 5
MaxWidth == 4
MaxPairLen == 5
MaxShortLen == 3

---------------------------------------------------------------------------
(* Python string primitives.                                               *)

\* s[i] for a 0-based index i; "" when i is out of range (as s[i:i+1]).
At(s, i) == IF i >= 0 /\ i < Len(s) THEN SubSeq(s, i + 1, i + 1) ELSE ""

\* s[a:z] for 0 <= a, 0 <= z.
Slice(s, a, z) ==
    LET zz == IF z > Len(s) THEN Len(s) ELSE z
    IN  IF a >= zz THEN "" ELSE SubSeq(s, a + 1, zz)

\* ' ' * n (the empty string when n <= 0).
RECURSIVE Spaces(_)
Spaces(n) == IF n <= 0 THEN "" ELSE " " \o Spaces(n - 1)

\* ''.join(parts)
RECURSIVE Concat(_)
Concat(parts) == IF parts = <<>> THEN "" ELSE Head(parts) \o Concat(Tail(parts))

\* sep.join(parts)
RECURSIVE Join(_, _)
Join(sep, parts) ==
    IF parts = <<>> THEN ""
    ELSE IF Len(parts) = 1 THEN parts[1]
    ELSE parts[1] \o sep \o Join(sep, Tail(parts))

\* Characters matched by \s and removed by str.strip() / str.rstrip().
Whitespace == {" ", "\t", "\n", "\r", "\f"}

IsSpace(c) == c \in Whitespace

RECURSIVE rstrip(_)
rstrip(s) ==
    IF s = "" THEN ""
    ELSE IF IsSpace(At(s, Len(s) - 1)) THEN rstrip(Slice(s, 0, Len(s) - 1))
    ELSE s

RECURSIVE lstrip(_)
lstrip(s) ==
    IF s = "" THEN ""
    ELSE IF IsSpace(At(s, 0)) THEN lstrip(Slice(s, 1, Len(s)))
    ELSE s

strip(s) == rstrip(lstrip(s))

---------------------------------------------------------------------------
(* _FIELD_RE = (@[<|>]+)                                                   *)

JustChars == {"<", "|", ">"}

\* Variant: the run is cut after its first character, as by (@[<|>]).
RunEndNonGreedy(s, i) == IF At(s, i) \in JustChars THEN i + 1 ELSE i

\* End (exclusive, 0-based) of the maximal run of [<|>] starting at i.
RECURSIVE RunEnd(_, _)
RunEnd(s, i) == IF At(s, i) \in JustChars THEN RunEnd(s, i + 1) ELSE i

\* Does _FIELD_RE match at 0-based position a of s?
MatchesAt(s, a) == At(s, a) = "@" /\ At(s, a + 1) \in JustChars

\* _FIELD_RE.search(s): the span <<a, z>> of the leftmost match, or
\* <<-1, -1>> when there is none.
FieldSearch(s) ==
    LET starts == {a \in 0..(Len(s) - 1) : MatchesAt(s, a)}
    IN  IF starts = {} THEN <<-1, -1>>
        ELSE LET a == CHOOSE x \in starts : \A y \in starts : x <= y
             IN  <<a, RunEnd(s, a + 1)>>

---------------------------------------------------------------------------
(* Input space.                                                            *)

RECURSIVE Strs(_, _)
Strs(A, n) ==
    IF n = 0 THEN {""}
    ELSE LET P == Strs(A, n - 1) IN P \cup {s \o c : s \in P, c \in A}

RECURSIVE Rep(_, _)
Rep(c, n) == IF n <= 0 THEN "" ELSE c \o Rep(c, n - 1)

SeqsUpTo(S, n) == UNION {[1..k -> S] : k \in 0..n}

TemplateAlphabet == {"@", "<", "|", ">", " ", ":"}
ValueAlphabet == {"a", "-", " ", "\n"}
PairAlphabet == {"a", " "}

Markers == {"@" \o Rep(j, k) : j \in JustChars, k \in 1..(MaxWidth - 1)}

\* Arbitrary templates, a few simple values: parsing and the count check.
ParseInputs(tpl, vals) ==
    \E s \in Strs(TemplateAlphabet, MaxTemplateLen),
       v \in SeqsUpTo({"", "a a"}, MaxValues) :
        tpl = s /\ vals = v

\* One field between two literals, arbitrary value: wrapping, justifying.
FieldInputs(tpl, vals) ==
    \E l1 \in {"", " "}, m \in Markers, l2 \in {"", " "},
       v \in Strs(ValueAlphabet, MaxValueLen) :
        tpl = l1 \o m \o l2 /\ vals = <<v>>

\* Two fields: the merge of render buffers of different lengths.
PairInputs(tpl, vals) ==
    \E m1 \in Markers, m2 \in {"@>", "@||"},
       v1 \in Strs(PairAlphabet, MaxShortLen),
       v2 \in Strs(PairAlphabet, MaxPairLen) :
        tpl = m1 \o ":" \o m2 /\ vals = <<v1, v2>>

DocTemplate == "@<<<<<<<<:@|||||||:@>>>>>>>"
DocValues == <<"now is the time for all", "good men to",
               "come to the aid of their party">>
DocResult ==
    "now is   : good men :  come to\nthe time :    to    :the aid of\nfor all  :          :     their\n         :          :     party"

\* The module docstring's example and the calls of textform_test.py.
Examples ==
    {[tpl |-> DocTemplate, vals |-> DocValues],
     [tpl |-> "hello world", vals |-> <<>>],
     [tpl |-> "foo", vals |-> <<"1">>],
     [tpl |-> "  @||||||  ", vals |-> <<"foo">>],
     [tpl |-> "@<<<<<<<<<<:@>>>>>>>>>>",
      vals |-> <<"now-is-the-time-for-all-good-men", "hello-world">>],
     [tpl |-> "@<<<<<<<<:@|||||||||:@>>>>>>>>>", vals |-> DocValues],
     [tpl |-> "@<<<", vals |-> <<"a \n\tb">>]}

ExampleInputs(tpl, vals) == \E in \in Examples : tpl = in.tpl /\ vals = in.vals

\* The calls the model considers.
Inputs(tpl, vals) ==
    \/ ParseInputs(tpl, vals)
    \/ FieldInputs(tpl, vals)
    \/ PairInputs(tpl, vals)
    \/ ExampleInputs(tpl, vals)

---------------------------------------------------------------------------
(* _SPACES_RE = \s+ and _cleanup_spaces                                    *)

\* End (exclusive) of the maximal run of whitespace starting at i.
RECURSIVE SpaceRunEnd(_, _)
SpaceRunEnd(s, i) == IF IsSpace(At(s, i)) THEN SpaceRunEnd(s, i + 1) ELSE i

\* _SPACES_RE.sub(repl, string): every maximal whitespace run of `string`
\* replaced by `repl` (a replacement without backslashes is literal).
RECURSIVE SpacesSub(_, _)
SpacesSub(repl, string) ==
    IF string = "" THEN ""
    ELSE IF IsSpace(At(string, 0))
         THEN repl \o SpacesSub(repl, Slice(string, SpaceRunEnd(string, 0), Len(string)))
         ELSE At(string, 0) \o SpacesSub(repl, Slice(string, 1, Len(string)))

\* str(v) of a str object is the object itself.
str(v) == v

_cleanup_spaces(v) == strip(SpacesSub(str(v), " "))

---------------------------------------------------------------------------
(* textwrap.wrap(text, width=w) with the defaults of TextWrapper, as       *)
(* called by format_to_lines.                                              *)

TabSize == 8

\* str.expandtabs(8), the column starting at col.
RECURSIVE ExpandTabs(_, _)
ExpandTabs(s, col) ==
    IF s = "" THEN ""
    ELSE LET c == At(s, 0)
             r == Slice(s, 1, Len(s))
         IN  IF c = "\t"
             THEN LET n == TabSize - (col % TabSize) IN Spaces(n) \o ExpandTabs(r, 0)
             ELSE IF c \in {"\n", "\r"} THEN c \o ExpandTabs(r, 0)
             ELSE c \o ExpandTabs(r, col + 1)

\* str.translate(unicode_whitespace_trans)
RECURSIVE TranslateWhitespace(_)
TranslateWhitespace(s) ==
    IF s = "" THEN ""
    ELSE (IF IsSpace(At(s, 0)) THEN " " ELSE At(s, 0))
         \o TranslateWhitespace(Slice(s, 1, Len(s)))

_munge_whitespace(text) == TranslateWhitespace(ExpandTabs(text, 0))

Digits == {"0", "1", "2", "3", "4", "5", "6", "7", "8", "9"}
Letters ==
    {"a", "b", "c", "d", "e", "f", "g", "h", "i", "j", "k", "l", "m",
     "n", "o", "p", "q", "r", "s", "t", "u", "v", "w", "x", "y", "z",
     "A", "B", "C", "D", "E", "F", "G", "H", "I", "J", "K", "L", "M",
     "N", "O", "P", "Q", "R", "S", "T", "U", "V", "W", "X", "Y", "Z", "_"}

\* letter = [^\d\W], \w, word_punct = [\w!"'&.,?]
IsLetter(c) == c \in Letters
IsWord(c) == c \in Letters \cup Digits
IsWordPunct(c) == IsWord(c) \/ c \in {"!", "\"", "'", "&", ".", ",", "?"}

RECURSIVE HyphenRunEnd(_, _)
HyphenRunEnd(s, i) == IF At(s, i) = "-" THEN HyphenRunEnd(s, i + 1) ELSE i

\* -{2,} (?=\w) at position q
EmDashAt(s, q) ==
    LET e == HyphenRunEnd(s, q) IN e - q >= 2 /\ IsWord(At(s, e))

\* -(?: (?<=lt{2}-) | (?<=lt-lt-)) (?= lt -? lt) at position q
HyphenBreakAt(s, q) ==
    /\ At(s, q) = "-"
    /\ \/ IsLetter(At(s, q - 2)) /\ IsLetter(At(s, q - 1))
       \/ IsLetter(At(s, q - 3)) /\ At(s, q - 2) = "-" /\ IsLetter(At(s, q - 1))
    /\ IsLetter(At(s, q + 1))
    /\ \/ At(s, q + 2) = "-" /\ IsLetter(At(s, q + 3))
       \/ IsLetter(At(s, q + 2))

\* End of the third alternative of wordsep_re (a word, possibly
\* hyphenated), the lazy run of non-whitespace having reached q.
RECURSIVE WordEnd(_, _)
WordEnd(s, q) ==
    IF HyphenBreakAt(s, q) THEN q + 1
    ELSE IF q >= Len(s) \/ IsSpace(At(s, q)) THEN q
    ELSE IF IsWordPunct(At(s, q - 1)) /\ EmDashAt(s, q) THEN q
    ELSE WordEnd(s, q + 1)

\* End of the match of wordsep_re at position p < Len(s).
ChunkEnd(s, p) ==
    IF IsSpace(At(s, p)) THEN SpaceRunEnd(s, p)
    ELSE IF IsWordPunct(At(s, p - 1)) /\ EmDashAt(s, p) THEN HyphenRunEnd(s, p)
    ELSE WordEnd(s, p + 1)

\* wordsep_re.split(text) without the empty strings.
RECURSIVE SplitFrom(_, _)
SplitFrom(s, p) ==
    IF p >= Len(s) THEN <<>>
    ELSE LET e == ChunkEnd(s, p) IN <<Slice(s, p, e)>> \o SplitFrom(s, e)

_split(text) == SplitFrom(text, 0)

\* chunk.rfind('-', 0, stop)
rfindHyphen(chunk, stop) ==
    LET hits == {i \in 0..(stop - 1) : At(chunk, i) = "-"}
    IN  IF hits = {} THEN -1 ELSE CHOOSE x \in hits : \A y \in hits : y <= x

\* Variant: the part of the long chunk that does not fit is dropped.
_handle_long_word_truncating(chunks, cur_line, cur_len, width) ==
    LET space_left == IF width < 1 THEN 1 ELSE width - cur_len
    IN  <<Append(cur_line, Slice(Head(chunks), 0, space_left)), Tail(chunks)>>

\* Variant: break_long_words=False, a long chunk gets a line of its own.
_handle_long_word_nobreak(chunks, cur_line, cur_len, width) ==
    IF cur_line = <<>> THEN <<<<Head(chunks)>>, Tail(chunks)>>
    ELSE <<cur_line, chunks>>

\* _handle_long_word: <<cur_line, chunks>> after it (break_long_words).
_handle_long_word(chunks, cur_line, cur_len, width) ==
    LET space_left == IF width < 1 THEN 1 ELSE width - cur_len
        chunk == Head(chunks)
        hyphen == rfindHyphen(chunk, space_left)
        end == IF /\ Len(chunk) > space_left
                  /\ hyphen > 0
                  /\ \E i \in 0..(hyphen - 1) : At(chunk, i) # "-"
               THEN hyphen + 1
               ELSE space_left
    IN  <<Append(cur_line, Slice(chunk, 0, end)),
          <<Slice(chunk, end, Len(chunk))>> \o Tail(chunks)>>

\* The inner loop of _wrap_chunks: <<cur_line, cur_len, chunks>>.
RECURSIVE FillLine(_, _, _, _)
FillLine(chunks, cur_line, cur_len, width) ==
    IF chunks # <<>> /\ cur_len + Len(Head(chunks)) <= width
    THEN FillLine(Tail(chunks), Append(cur_line, Head(chunks)),
                  cur_len + Len(Head(chunks)), width)
    ELSE <<cur_line, cur_len, chunks>>

\* The outer loop of _wrap_chunks (chunks in reading order).
RECURSIVE _wrap_chunks(_, _, _)
_wrap_chunks(chunks, out, width) ==
    IF chunks = <<>> THEN out
    ELSE LET c0 == IF strip(Head(chunks)) = "" /\ out # <<>>
                   THEN Tail(chunks) ELSE chunks
             filled == FillLine(c0, <<>>, 0, width)
             long == IF filled[3] # <<>> /\ Len(Head(filled[3])) > width
                     THEN _handle_long_word(filled[3], filled[1], filled[2], width)
                     ELSE <<filled[1], filled[3]>>
             cur == long[1]
             cur_line == IF cur # <<>> /\ strip(cur[Len(cur)]) = ""
                         THEN SubSeq(cur, 1, Len(cur) - 1) ELSE cur
             out1 == IF cur_line # <<>> THEN Append(out, Concat(cur_line)) ELSE out
         IN  _wrap_chunks(long[2], out1, width)

wrap(text, width) == _wrap_chunks(_split(_munge_whitespace(text)), <<>>, width)

---------------------------------------------------------------------------
(* format_to_lines                                                         *)

Init ==
    /\ Inputs(template, values)
    /\ pc = "parse"
    /\ t = template
    /\ fields = <<>>
    /\ rows = <<>>
    /\ more = FALSE
    /\ line = <<>>
    /\ lines = <<>>
    /\ result = ""

\* One iteration of the parsing loop that finds a marker.
ParseField ==
    /\ pc = "parse"
    /\ LET m == FieldSearch(t)
       IN  /\ m[1] >= 0
           /\ fields' = fields \o <<Slice(t, 0, m[1]), Slice(t, m[1], m[2])>>
           /\ t' = Slice(t, m[2], Len(t))
    /\ UNCHANGED <<template, values, pc, rows, more, line, lines, result>>

\* The iteration that finds no marker: leave the loop, append the tail.
ParseTail ==
    /\ pc = "parse"
    /\ FieldSearch(t)[1] < 0
    /\ fields' = Append(fields, t)
    /\ pc' = "check"
    /\ UNCHANGED <<template, values, t, rows, more, line, lines, result>>

\* Variant: the count check without the "+ 1" of the trailing literal.
RaiseMismatchOffByOne ==
    /\ pc = "check"
    /\ Len(values) * 2 # Len(fields)
    /\ pc' = "Mismatch"
    /\ UNCHANGED <<template, values, t, fields, rows, more, line, lines, result>>

\* raise Mismatch
RaiseMismatch ==
    /\ pc = "check"
    /\ Len(values) * 2 + 1 # Len(fields)
    /\ pc' = "Mismatch"
    /\ UNCHANGED <<template, values, t, fields, rows, more, line, lines, result>>

CheckPassed ==
    /\ pc = "check"
    /\ Len(values) * 2 + 1 = Len(fields)
    /\ pc' = "wrap"
    /\ UNCHANGED <<template, values, t, fields, rows, more, line, lines, result>>

_justify_left(s, width) == s \o Spaces(width - Len(s))

_justify_right(s, width) == Spaces(width - Len(s)) \o s

\* Variant: the odd space goes to the left.
_justify_center_left_heavy(s, width) ==
    LET spaces == width - Len(s)
        left == (spaces + 1) \div 2
    IN  Spaces(left) \o s \o Spaces(spaces - left)

_justify_center(s, width) ==
    LET spaces == width - Len(s)
        left == spaces \div 2
    IN  Spaces(left) \o s \o Spaces(spaces - left)

\* The justify function selected by t = f[1:2].
justify(f, x, width) ==
    LET c == Slice(f, 1, 2)
    IN  IF c = ">" THEN _justify_right(x, width)
        ELSE IF c = "|" THEN _justify_center(x, width)
        ELSE _justify_left(x, width)

\* vs of the wrapping loop for field marker f and value v.
WrapValue(f, v) == IF f # "" THEN wrap(_cleanup_spaces(v), Len(f)) ELSE <<>>

\* The row appended for field marker f and value v.
RenderRow(f, v) ==
    LET vs == WrapValue(f, v)
    IN  [i \in 1..Len(vs) |-> justify(f, vs[i], Len(f))]

\* One iteration of the wrapping loop, vi = len(rows).
WrapField ==
    /\ pc = "wrap"
    /\ Len(rows) < Len(values)
    /\ LET vi == Len(rows)
           fi == 2 * vi + 1
       IN  rows' = Append(rows, RenderRow(fields[fi + 1], values[vi + 1]))
    /\ UNCHANGED <<template, values, pc, t, fields, more, line, lines, result>>

\* Variant: `more` is overwritten by each field instead of accumulated.
RECURSIVE FirstSweepLastWins(_, _, _, _, _)
FirstSweepLastWins(fs, fi, ln, rs, mr) ==
    IF fi >= Len(fs) THEN [line |-> ln, rows |-> rs, more |-> mr]
    ELSE LET f == fs[fi + 1] IN
         IF fi % 2 = 0 THEN FirstSweepLastWins(fs, fi + 1, Append(ln, f), rs, mr)
         ELSE LET vi == fi \div 2
                  row == rs[vi + 1]
              IN  IF row # <<>>
                  THEN FirstSweepLastWins(fs, fi + 1, Append(ln, Head(row)),
                                          [rs EXCEPT ![vi + 1] = Tail(row)],
                                          Tail(row) # <<>>)
                  ELSE FirstSweepLastWins(fs, fi + 1, Append(ln, Spaces(Len(f))),
                                          rs, FALSE)

\* The first sweep over the segments from index fi on.
RECURSIVE FirstSweep(_, _, _, _, _)
FirstSweep(fs, fi, ln, rs, mr) ==
    IF fi >= Len(fs) THEN [line |-> ln, rows |-> rs, more |-> mr]
    ELSE LET f == fs[fi + 1] IN
         IF fi % 2 = 0 THEN FirstSweep(fs, fi + 1, Append(ln, f), rs, mr)
         ELSE LET vi == fi \div 2
                  row == rs[vi + 1]
              IN  IF row # <<>>
                  THEN FirstSweep(fs, fi + 1, Append(ln, Head(row)),
                                  [rs EXCEPT ![vi + 1] = Tail(row)],
                                  mr \/ Tail(row) # <<>>)
                  ELSE FirstSweep(fs, fi + 1, Append(ln, Spaces(Len(f))), rs, mr)

\* Variant: the render buffers are popped from the back, as by pop().
RECURSIVE LoopSweepPopLast(_, _, _, _, _)
LoopSweepPopLast(fs, fi, ln, rs, mr) ==
    IF fi >= Len(fs) THEN [line |-> ln, rows |-> rs, more |-> mr]
    ELSE LET f == fs[fi + 1] IN
         IF fi % 2 = 0 THEN LoopSweepPopLast(fs, fi + 1, Append(ln, f), rs, mr)
         ELSE LET vi == fi \div 2
                  row == rs[vi + 1]
              IN  IF row = <<>>
                  THEN LoopSweepPopLast(fs, fi + 1, Append(ln, Spaces(Len(f))), rs, mr)
                  ELSE LoopSweepPopLast(fs, fi + 1, Append(ln, row[Len(row)]),
                                        [rs EXCEPT ![vi + 1] = SubSeq(row, 1, Len(row) - 1)],
                                        mr \/ Len(row) > 1)

\* A sweep of the while loop over the segments from index fi on.
RECURSIVE LoopSweep(_, _, _, _, _)
LoopSweep(fs, fi, ln, rs, mr) ==
    IF fi >= Len(fs) THEN [line |-> ln, rows |-> rs, more |-> mr]
    ELSE LET f == fs[fi + 1] IN
         IF fi % 2 = 0 THEN LoopSweep(fs, fi + 1, Append(ln, f), rs, mr)
         ELSE LET vi == fi \div 2 IN
              IF rs[vi + 1] = <<>>
              THEN LoopSweep(fs, fi + 1, Append(ln, Spaces(Len(f))), rs, mr)
              ELSE LoopSweep(fs, fi + 1, Append(ln, Head(rs[vi + 1])),
                             [rs EXCEPT ![vi + 1] = Tail(rs[vi + 1])],
                             mr \/ Tail(rs[vi + 1]) # <<>>)

\* Variant: ''.join(line).strip()
FinishLineStrip(ln) == strip(Concat(ln))

\* ''.join(line).rstrip()
FinishLine(ln) == rstrip(Concat(ln))

\* The wrapping loop is over; the first pass builds lines[0].
FirstPass ==
    /\ pc = "wrap"
    /\ Len(rows) = Len(values)
    /\ LET r == FirstSweep(fields, 0, <<>>, rows, FALSE)
       IN  /\ line' = r.line
           /\ rows' = r.rows
           /\ more' = r.more
           /\ lines' = <<FinishLine(r.line)>>
    /\ pc' = "loop"
    /\ UNCHANGED <<template, values, t, fields, result>>

\* One iteration of `while more`.
LoopPass ==
    /\ pc = "loop"
    /\ more
    /\ LET r == LoopSweep(fields, 0, <<>>, rows, FALSE)
       IN  /\ line' = r.line
           /\ rows' = r.rows
           /\ more' = r.more
           /\ lines' = Append(lines, FinishLine(r.line))
    /\ UNCHANGED <<template, values, pc, t, fields, result>>

\* format_to_lines returns lines; format joins them with newlines.
Return ==
    /\ pc = "loop"
    /\ ~more
    /\ result' = Join("\n", lines)
    /\ pc' = "done"
    /\ UNCHANGED <<template, values, t, fields, rows, more, line, lines>>

---------------------------------------------------------------------------
(* Vocabulary of the properties.                                           *)

\* Number of field markers of a template: positions of an '@' that is
\* immediately followed by '<', '|' or '>'.
NumMarkers(s) ==
    Cardinality({a \in 0..(Len(s) - 2) :
                    SubSeq(s, a + 1, a + 1) = "@"
                    /\ SubSeq(s, a + 2, a + 2) \in {"<", "|", ">"}})

AllSpaces(s) == \A i \in 1..Len(s) : SubSeq(s, i, i) = " "

AllJust(s) == \A i \in 1..Len(s) : SubSeq(s, i, i) \in {"<", "|", ">"}

HasDoubleSpace(s) == \E i \in 1..(Len(s) - 1) : SubSeq(s, i, i + 1) = "  "

\* The words (maximal runs of non-whitespace) of s, in order.
RECURSIVE WordsFrom(_, _, _)
WordsFrom(s, i, cur) ==
    IF i > Len(s) THEN (IF cur = "" THEN <<>> ELSE <<cur>>)
    ELSE IF SubSeq(s, i, i) \in Whitespace
         THEN (IF cur = "" THEN <<>> ELSE <<cur>>) \o WordsFrom(s, i + 1, "")
         ELSE WordsFrom(s, i + 1, cur \o SubSeq(s, i, i))

WordsOf(s) == WordsFrom(s, 1, "")

RECURSIVE WordsOfLines(_)
WordsOfLines(ls) ==
    IF ls = <<>> THEN <<>> ELSE WordsOf(Head(ls)) \o WordsOfLines(Tail(ls))

HasHyphen(s) == \E i \in 1..Len(s) : SubSeq(s, i, i) = "-"

InSeq(x, sq) == \E i \in 1..Len(sq) : sq[i] = x

\* The marker and the value of field vi (1-based) of the current call.
FieldOf(vi) == fields[2 * vi]
WidthOf(vi) == Len(fields[2 * vi])

\* All render buffers are filled and none has been consumed yet.
Wrapped == pc = "wrap" /\ Len(rows) = Len(values)

Rendered == pc \in {"loop", "done"}

Next ==
    \/ ParseField
    \/ ParseTail
    \/ RaiseMismatch
    \/ CheckPassed
    \/ WrapField
    \/ FirstPass
    \/ LoopPass
    \/ Return

Spec == Init /\ [][Next]_vars

---------------------------------------------------------------------------
(* Properties.                                                             *)

\* C1: once the count check has run, the call has raised Mismatch if and
\* only if the number of values differs from the number of field markers of
\* the template; when it raises, no render buffer, no pass and no output
\* line has been produced.
C1_MismatchIffCountsDiffer ==
    /\ pc \notin {"parse", "check"} =>
          (pc = "Mismatch" <=> Len(values) # NumMarkers(template))
    /\ pc = "Mismatch" =>
          rows = <<>> /\ line = <<>> /\ lines = <<>> /\ result = ""

C1_Witness ==
    pc = "Mismatch" /\ NumMarkers(template) = 1 /\ Len(values) = 2

\* C2: every value is whitespace-normalized before it is wrapped, so the
\* render buffer of a field is the one of the normalized value and no
\* rendered line has two consecutive spaces between two words.
C2_WhitespaceNormalized ==
    Wrapped =>
        \A vi \in 1..Len(rows) :
            /\ rows[vi] = RenderRow(FieldOf(vi), Join(" ", WordsOf(values[vi])))
            /\ \A k \in 1..Len(rows[vi]) : ~HasDoubleSpace(strip(rows[vi][k]))

\* C3 (as claimed): wrapping breaks lines only at whitespace and never
\* splits a word, so the words of the wrapped lines are the words of the
\* value.
C3_NeverSplitsWord ==
    Wrapped =>
        \A vi \in 1..Len(rows) : WordsOfLines(rows[vi]) = WordsOf(values[vi])

\* C3 (amended): wrapping the cleaned-up text of a value keeps every
\* character of every word, in order; a word without hyphen that fits the
\* width is never split; a piece of a split word is never longer than the
\* width.
C3_SplitsOnlyLongOrHyphenated ==
    Wrapped =>
        \A vi \in 1..Len(rows) :
            LET ws == WordsOf(_cleanup_spaces(values[vi]))
                ps == WordsOfLines(rows[vi])
            IN  /\ Concat(ps) = Concat(ws)
                /\ \A i \in 1..Len(ws) :
                      (Len(ws[i]) <= WidthOf(vi) /\ ~HasHyphen(ws[i])) => InSeq(ws[i], ps)
                /\ \A i \in 1..Len(ps) : Len(ps[i]) <= WidthOf(vi)

C3_Witness ==
    /\ Wrapped
    /\ Len(rows) = 1
    /\ WordsOf(values[1]) = <<"aaaaa">>
    /\ WidthOf(1) = 3
    /\ Len(rows[1]) = 2

\* C4: every wrapped line s of a field of width w is padded with spaces to
\* exactly w characters: s first for '<', s last for '>', and for '|' s
\* after floor((w - len(s)) / 2) spaces, the odd space going to the right.
C4_Justified ==
    Wrapped =>
        \A vi \in 1..Len(rows) :
            LET f == FieldOf(vi)
                w == Len(f)
                vs == WrapValue(f, values[vi])
                j == SubSeq(f, 2, 2)
            IN  /\ Len(rows[vi]) = Len(vs)
                /\ \A k \in 1..Len(vs) :
                      LET sl == Len(vs[k])
                          x == rows[vi][k]
                          left == IF j = ">" THEN w - sl
                                  ELSE IF j = "|" THEN (w - sl) \div 2
                                  ELSE 0
                      IN  /\ sl <= w
                          /\ Len(x) = w
                          /\ AllSpaces(SubSeq(x, 1, left))
                          /\ SubSeq(x, left + 1, left + sl) = vs[k]
                          /\ AllSpaces(SubSeq(x, left + sl + 1, w))

C4_Witness ==
    /\ Wrapped
    /\ Len(rows) = 1
    /\ FieldOf(1) = "@|||"
    /\ rows[1] = <<" a  ">>

\* C5 (as claimed): a successful call on a template with at least one field
\* returns as many lines as the longest render buffer had.
MaxWrapped ==
    LET counts == {Len(WrapValue(FieldOf(vi), values[vi])) : vi \in 1..Len(values)}
    IN  CHOOSE n \in counts : \A m \in counts : m <= n

C5_LineCountIsMax ==
    (pc = "done" /\ Len(values) >= 1) => Len(lines) = MaxWrapped

\* C5 (amended): a successful call on a template with at least one field
\* returns as many lines as the longest render buffer had, and one line
\* when every render buffer was empty.
C5_LineCountIsMaxOrOne ==
    (pc = "done" /\ Len(values) >= 1) =>
        Len(lines) = IF MaxWrapped = 0 THEN 1 ELSE MaxWrapped

C5_Witness ==
    /\ pc = "done"
    /\ Len(values) = 2
    /\ Len(WrapValue(FieldOf(1), values[1])) = 2
    /\ Len(WrapValue(FieldOf(2), values[2])) = 1
    /\ Len(lines) = 2

\* C6: the output line of a pass is the concatenation of the pass's pieces
\* without its trailing whitespace: a prefix of it, followed there only by
\* whitespace, and not itself ending in whitespace.
C6_OnlyTrailingStripped ==
    Rendered =>
        LET raw == Concat(line)
            out == lines[Len(lines)]
        IN  /\ Len(out) <= Len(raw)
            /\ SubSeq(raw, 1, Len(out)) = out
            /\ \A i \in (Len(out) + 1)..Len(raw) : SubSeq(raw, i, i) \in Whitespace
            /\ \A k \in 1..Len(lines) :
                  lines[k] = "" \/ SubSeq(lines[k], Len(lines[k]), Len(lines[k])) \notin Whitespace

C6_Witness ==
    /\ pc = "done"
    /\ template = " @>>> "
    /\ lines = <<"    a">>

\* C7: format returns the string of the module docstring for the call of
\* the module docstring.
C7_DocstringExample ==
    (pc = "done" /\ template = DocTemplate /\ values = DocValues) =>
        result = DocResult

\* C8: every line of a render buffer is exactly as long as its field, so
\* every piece of a pass is as long as its segment and the unstripped line
\* is as long as the template.
C8_BufferLinesHaveFieldWidth ==
    /\ \A vi \in 1..Len(rows) :
          \A k \in 1..Len(rows[vi]) : Len(rows[vi][k]) = WidthOf(vi)
    /\ Rendered =>
          /\ Len(line) = Len(fields)
          /\ \A i \in 1..Len(line) : Len(line[i]) = Len(fields[i])
          /\ Len(Concat(line)) = Len(template)

C8_Witness ==
    /\ Rendered
    /\ Len(values) = 1
    /\ WordsOf(values[1]) = <<"aaaa">>
    /\ WidthOf(1) = 3
    /\ Len(lines) = 2

\* C9: after pass k (0-based), field i has contributed line k of its
\* wrapped, justified value, or blanks of its width when it has no such
\* line; its render buffer holds exactly the lines after k; every literal
\* is copied verbatim; and the loop goes on exactly while some render
\* buffer is not empty.
C9_MergeEmitsInOrder ==
    Rendered =>
        LET k == Len(lines) - 1 IN
        /\ \A vi \in 1..Len(values) :
              LET r == RenderRow(FieldOf(vi), values[vi])
              IN  /\ IF Len(r) > k THEN line[2 * vi] = r[k + 1]
                     ELSE AllSpaces(line[2 * vi]) /\ Len(line[2 * vi]) = WidthOf(vi)
                  /\ rows[vi] = SubSeq(r, k + 2, Len(r))
        /\ \A i \in 1..Len(fields) : i % 2 = 1 => line[i] = fields[i]
        /\ pc = "loop" => (more <=> \E vi \in 1..Len(rows) : rows[vi] # <<>>)
        /\ pc = "done" => \A vi \in 1..Len(rows) : rows[vi] = <<>>

C9_Witness ==
    /\ pc = "loop"
    /\ Len(values) = 2
    /\ Len(lines) = 2
    /\ AllSpaces(line[2])
    /\ ~AllSpaces(line[4])
    /\ more

\* C10: the parsed segments are odd in number and alternate literal and
\* field; every field segment is a maximal '@' + [<|>]+ run, no literal
\* segment contains a marker, the segments concatenate to the template, and
\* a template without marker is its own single literal segment.
C10_SegmentsAlternate ==
    /\ Concat(fields) \o (IF pc = "parse" THEN t ELSE "") = template
    /\ pc # "parse" =>
          /\ Len(fields) % 2 = 1
          /\ Len(fields) = 2 * NumMarkers(template) + 1
          /\ \A i \in 1..Len(fields) :
                IF i % 2 = 0
                THEN /\ Len(fields[i]) >= 2
                     /\ SubSeq(fields[i], 1, 1) = "@"
                     /\ AllJust(SubSeq(fields[i], 2, Len(fields[i])))
                     /\ fields[i + 1] = "" \/ SubSeq(fields[i + 1], 1, 1) \notin {"<", "|", ">"}
                ELSE NumMarkers(fields[i]) = 0
          /\ NumMarkers(template) = 0 => fields = <<template>>

C10_Witness ==
    /\ pc = "check"
    /\ template = "@ @<"
    /\ fields = <<"@ ", "@<", "">>

=============================================================================
